---- MODULE Spec2Model ----
(***************************************************************************)
(* script-util: the Spinner (src/src/logging/Spinner.ts) and the Bracket   *)
(* (src/src/logging/Bracket.ts) writing to one shared stream.              *)
(*                                                                         *)
(* JavaScript runs every handler to completion, so each public call, each  *)
(* timer tick and each half of an async `using` is one atomic action; the  *)
(* only interleaving is between such actions.  Strings are sequences of    *)
(* tokens ("nl" is the newline character).  Every action appends one group *)
(* to `out`: the operation and the tokens that reached the native writer   *)
(* of the stream during it, in order.                                      *)
(***************************************************************************)
EXTENDS Integers, Sequences, FiniteSets, TLC

\* ---------------------------------------------------------------- bounds
\* Longest trace (operations) of the bracket specification.
MaxOut == 4
\* Longest trace (operations) of the spinner specification.
MaxSpin == 8
\* Number of writes of the capture specification.
MaxSplit == 3
\* options.details: number of detail lines of each bracket.
NumDetails == 1
\* Number of times the promise of the local command is awaited.
MaxAwait == 2
\* Longest diagnostic output of the shell specification.
MaxStderr == 5
\* The lines of the longest output of a command.
MaxOutputLines == 51
\* Remote calls created from one SSH shell, and operations on it and on them.
MaxHandles == 2
MaxSshOps == 4
\* Longest array among the expressions of a logged command.
MaxArray == 2
\* The largest taskGap option, and the writes that make up one line.
MaxGap == 2
MaxLine == 2
\* Operations on the cleanup registry and events of the process.
MaxCleanupOps == 5

\* ------------------------------------------------------------- constants
\* The two Bracket objects of the model, each with the Spinner its factory
\* creates on the same stream.
Brackets == {1, 2}
\* stream.write before any capture: the stream's own writer.
Native == 0
\* JavaScript's undefined, for a writer slot.
Undefined == -1
\* Spinner.frames
frames == <<"-", "\\", "|", "/">>
\* The payload Bracket.task queues: '\b\x1b[P\n'
TaskPayload == <<"bs", "erase", "nl">>

VARIABLES
  write,          \* stream.write: Native, or b for bracket b's capturedWrite
  isTTY,          \* stream.isTTY
  out,            \* the trace: one group per operation
  timer,          \* Spinner.timer != null, per spinner
  armed,          \* number of intervals set and not cleared, per spinner
  currentFrame,   \* Spinner.currentFrame
  writing,        \* Spinner._writing
  writeOnStop,    \* Spinner._writeOnStop: {} is undefined, {s} the string s
  optTaskSpinner, \* options.taskSpinner !== false, per bracket
  optCapture,     \* options.capture != null, per bracket
  taskGap,        \* options.taskGap ?? 0, per bracket
  currentTask,    \* Bracket.currentTask
  originalWrite,  \* Bracket.originalWrite (Undefined or a writer)
  capturedWrite,  \* Bracket.capturedWrite != null
  newline,        \* the `newline` variable the capturedWrite closure holds
  phase,          \* where the caller is with each bracket
  pre,            \* history: stream.write when the bracket's scope was entered,
                  \* immediately before its capture() where one runs
  shell,          \* createShell: $verbose, one command's promise and its awaits
  ssh,            \* createSSHShell: its closure variables, the calls created
                  \* from it and the executions they started
  built,          \* buildCommand: its arguments and, once it ran, its result
  proc            \* cleanup.ts: ROUTINES, the process and what has run in it

vars == <<write, isTTY, out, timer, armed, currentFrame, writing, writeOnStop,
          optTaskSpinner, optCapture, taskGap, currentTask, originalWrite,
          capturedWrite, newline, phase, pre, shell, ssh, built, proc>>

\* The variables the logging classes never touch.
scriptVars == <<shell, ssh, built, proc>>

\* ------------------------------------------------------- the mutable heap
\* The objects' fields as one record, threaded through the calls of a handler.
Heap ==
  [write |-> write, buf |-> <<>>, timer |-> timer, armed |-> armed,
   currentFrame |-> currentFrame, writing |-> writing, writeOnStop |-> writeOnStop,
   currentTask |-> currentTask, originalWrite |-> originalWrite,
   capturedWrite |-> capturedWrite, newline |-> newline]

\* Bracket.taskSpinner after the constructor ran.
HasSpinner(b) ==
  LET isInteractiveTty == IF optCapture[b] THEN isTTY ELSE FALSE
      useTaskSpinner == optTaskSpinner[b] /\ isInteractiveTty
  IN  ~useTaskSpinner

\* Who makes a write: the kind of caller and its bracket (0: none).  `glyph`
\* is set on the body glyph an interceptor adds while it passes the write on.
By(kind, b) == [kind |-> kind, b |-> b, glyph |-> 0]

\* One token reaching the stream's own writer, with the spinners whose
\* interval is set (run) and that are inside a write of their own (wr) then.
Entry(h, t, who, via, text) ==
  [t |-> t, kind |-> who.kind, b |-> who.b, glyph |-> who.glyph, via |-> via,
   text |-> text, run |-> {s \in Brackets : h.timer[s]},
   wr |-> {s \in Brackets : h.writing[s]}]

RECURSIVE NativeWrite(_, _, _, _, _)
NativeWrite(h, toks, who, via, text) ==
  IF toks = <<>> THEN h
  ELSE NativeWrite([h EXCEPT !.buf = Append(@, Entry(h, Head(toks), who, via, text))],
                   Tail(toks), who, via, text)

\* chunk.indexOf('\n'): the first position of a newline, 0 when there is none.
RECURSIVE IndexOfNl(_, _)
IndexOfNl(chunk, i) ==
  IF i > Len(chunk) THEN 0
  ELSE IF chunk[i] = "nl" THEN i ELSE IndexOfNl(chunk, i + 1)

\* The lines of a chunk, each keeping the newline that ends it.
RECURSIVE SplitLines(_)
SplitLines(chunk) ==
  IF Len(chunk) = 0 THEN <<>>
  ELSE LET nlpos == IndexOfNl(chunk, 1)
       IN  IF nlpos = 0 THEN <<chunk>>
           ELSE <<SubSeq(chunk, 1, nlpos)>> \o SplitLines(SubSeq(chunk, nlpos + 1, Len(chunk)))

RECURSIVE Call(_, _, _, _, _, _)
RECURSIVE CapturedWrite(_, _, _, _, _, _)
RECURSIVE WriteLines(_, _, _, _, _)
RECURSIVE SpinnerStop(_, _)

\* stream.write(chunk) as the caller sees it: whatever the slot holds now.
StreamWrite(h, toks, who, text) == Call(h, h.write, toks, who, {}, text)

\* Mutant: start() without its guard arms one more interval on every call.
SpinnerStartUnguarded(h, s) == [h EXCEPT !.timer[s] = TRUE, !.armed[s] = @ + 1]

\* Mutant: start() rewinds the animation to its first frame.
SpinnerStartRewinds(h, s) ==
  IF h.timer[s] THEN h
  ELSE [h EXCEPT !.timer[s] = TRUE, !.armed[s] = @ + 1, !.currentFrame[s] = 0]

\* Spinner.start
SpinnerStart(h, s) ==
  IF h.timer[s] THEN h
  ELSE [h EXCEPT !.timer[s] = TRUE, !.armed[s] = @ + 1]

\* Mutant: stop() leaves the payload queued.
SpinnerStopKeepsPayload(h, s) ==
  IF ~h.timer[s] THEN h
  ELSE LET h0 == [h EXCEPT !.armed[s] = @ - 1, !.writing[s] = TRUE]
           h1 == StreamWrite(h0, <<"erase">>, By("erase", s), TRUE)
           h2 == IF h1.writeOnStop[s] # {} /\ h1.writeOnStop[s] # {<<>>}
                 THEN StreamWrite(h1, CHOOSE p \in h1.writeOnStop[s] : TRUE,
                                  By("payload", s), TRUE)
                 ELSE h1
       IN  [h2 EXCEPT !.writing[s] = FALSE, !.timer[s] = FALSE]

\* Mutant: stop() without its guard erases even when nothing runs.
SpinnerStopUnguarded(h, s) ==
  LET h0 == [h EXCEPT !.armed[s] = IF h.timer[s] THEN @ - 1 ELSE @, !.writing[s] = TRUE]
      h1 == StreamWrite(h0, <<"erase">>, By("erase", s), TRUE)
      h2 == IF h1.writeOnStop[s] # {} /\ h1.writeOnStop[s] # {<<>>}
            THEN StreamWrite(h1, CHOOSE p \in h1.writeOnStop[s] : TRUE,
                             By("payload", s), TRUE)
            ELSE h1
  IN  [h2 EXCEPT !.writing[s] = FALSE, !.writeOnStop[s] = {}, !.timer[s] = FALSE]

\* Spinner.stop
SpinnerStop(h, s) ==
  IF ~h.timer[s] THEN h
  ELSE LET h0 == [h EXCEPT !.armed[s] = @ - 1, !.writing[s] = TRUE]
           h1 == StreamWrite(h0, <<"erase">>, By("erase", s), TRUE)
           h2 == IF h1.writeOnStop[s] # {} /\ h1.writeOnStop[s] # {<<>>}
                 THEN StreamWrite(h1, CHOOSE p \in h1.writeOnStop[s] : TRUE,
                                  By("payload", s), TRUE)
                 ELSE h1
       IN  [h2 EXCEPT !.writing[s] = FALSE, !.writeOnStop[s] = {}, !.timer[s] = FALSE]

\* Mutant: the interval callback writes its frame without raising the flag.
SpinnerTickUnflagged(h, s) ==
  IF ~h.timer[s] THEN h
  ELSE LET h1 == StreamWrite(h, <<frames[h.currentFrame[s] + 1], "bs">>, By("frame", s), TRUE)
       IN  [h1 EXCEPT !.currentFrame[s] = (@ + 1) % Len(frames)]

\* The interval callback of Spinner.start
SpinnerTick(h, s) ==
  IF ~h.timer[s] THEN h
  ELSE LET h0 == [h EXCEPT !.writing[s] = TRUE]
           h1 == StreamWrite(h0, <<frames[h0.currentFrame[s] + 1], "bs">>, By("frame", s), TRUE)
       IN  [h1 EXCEPT !.writing[s] = FALSE,
                      !.currentFrame[s] = (@ + 1) % Len(frames)]

\* Spinner.writeOnStop(value), the setter
SpinnerWriteOnStop(h, s, value) == [h EXCEPT !.writeOnStop[s] = {value}]

\* lines.forEach of the capturedWrite closure
WriteLines(h, b, lines, who, via) ==
  IF lines = <<>> THEN h
  ELSE LET line == Head(lines)
           original == h.originalWrite[b]
           h1 == IF h.newline[b]
                 THEN Call(h, original, <<"bodyGlyph">>, [who EXCEPT !.glyph = b], via, TRUE)
                 ELSE h
           h2 == Call(h1, original, line, who, via, TRUE)
           h3 == [h2 EXCEPT !.newline[b] = (line[Len(line)] = "nl")]
       IN  WriteLines(h3, b, Tail(lines), who, via)

\* Mutant: the interceptor writes without stopping the spinner.
CapturedWriteNoStop(h, b, toks, who, via, text) ==
  IF ~text THEN Call(h, h.originalWrite[b], toks, who, via \cup {b}, FALSE)
  ELSE WriteLines(h, b, SplitLines(toks), who, via \cup {b})

\* Mutant: the interceptor starts every write as a new line.
CapturedWriteForgetsLine(h, b, toks, who, via, text) ==
  IF ~text THEN Call(h, h.originalWrite[b], toks, who, via \cup {b}, FALSE)
  ELSE LET spinnerRunning == HasSpinner(b) /\ ~h.writing[b] /\ h.timer[b]
           h1 == IF spinnerRunning THEN SpinnerStop(h, b) ELSE h
           h2 == WriteLines([h1 EXCEPT !.newline[b] = TRUE], b, SplitLines(toks), who,
                            via \cup {b})
       IN  IF spinnerRunning THEN SpinnerStart(h2, b) ELSE h2

\* The capturedWrite closure of bracket b
CapturedWrite(h, b, toks, who, via, text) ==
  IF ~text THEN Call(h, h.originalWrite[b], toks, who, via \cup {b}, FALSE)
  ELSE LET spinnerRunning == HasSpinner(b) /\ ~h.writing[b] /\ h.timer[b]
           h1 == IF spinnerRunning THEN SpinnerStop(h, b) ELSE h
           h2 == WriteLines(h1, b, SplitLines(toks), who, via \cup {b})
       IN  IF spinnerRunning THEN SpinnerStart(h2, b) ELSE h2

\* A call of the writer w
Call(h, w, toks, who, via, text) ==
  IF w = Native THEN NativeWrite(h, toks, who, via, text)
  ELSE CapturedWrite(h, w, toks, who, via, text)

\* The heap a handler leaves becomes the next state, its output one group.
Commit(h, op, b) ==
  /\ write' = h.write
  /\ out' = Append(out, [op |-> op, b |-> b, toks |-> h.buf])
  /\ timer' = h.timer
  /\ armed' = h.armed
  /\ currentFrame' = h.currentFrame
  /\ writing' = h.writing
  /\ writeOnStop' = h.writeOnStop
  /\ currentTask' = h.currentTask
  /\ originalWrite' = h.originalWrite
  /\ capturedWrite' = h.capturedWrite
  /\ newline' = h.newline
  /\ UNCHANGED <<isTTY, optTaskSpinner, optCapture, taskGap, scriptVars>>

\* ------------------------------------------------------------ Bracket
\* The `out` function of Bracket.stdout / Bracket.stderr: stream.write(line).
Out(h, b, line, who) == StreamWrite(h, line, By(who, b), TRUE)

\* Bracket.write
RECURSIVE BracketWrite(_, _, _, _)
BracketWrite(h, b, chunks, who) ==
  IF chunks = <<>> THEN h
  ELSE BracketWrite(Out(h, b, Head(chunks), who), b, Tail(chunks), who)

\* it.split('\n')
RECURSIVE SplitNl(_)
SplitNl(raw) ==
  LET nlpos == IndexOfNl(raw, 1)
  IN  IF nlpos = 0 THEN <<raw>>
      ELSE <<SubSeq(raw, 1, nlpos - 1)>> \o SplitNl(SubSeq(raw, nlpos + 1, Len(raw)))

RECURSIVE FlatMapSplit(_)
FlatMapSplit(raws) ==
  IF raws = <<>> THEN <<>> ELSE SplitNl(Head(raws)) \o FlatMapSplit(Tail(raws))

\* Bracket.line
BracketLine(h, b, raw, who) ==
  LET lines == IF Len(raw) = 0 THEN << <<>> >> ELSE FlatMapSplit(raw)
  IN  BracketWrite(h, b, [i \in 1..Len(lines) |-> Append(lines[i], "nl")], who)

\* Bracket.printHeader
RECURSIVE PrintDetails(_, _, _)
PrintDetails(h, b, n) ==
  IF n = 0 THEN h
  ELSE PrintDetails(BracketLine(h, b, << <<"bodyGlyph", "detail">> >>, "detail"), b, n - 1)

PrintHeader(h, b) ==
  PrintDetails(BracketLine(h, b, << <<"headerGlyph", "header">> >>, "header"), b, NumDetails)

\* Bracket.printFooter
PrintFooter(h, b) == Out(h, b, <<"footerGlyph", "/", "nl">>, "footer")

\* Bracket.capture
Capture(h, b) ==
  IF ~optCapture[b] THEN h
  ELSE LET h1 == IF h.originalWrite[b] = Undefined
                 THEN [h EXCEPT !.originalWrite[b] = h.write]
                 ELSE h
           h2 == IF ~h1.capturedWrite[b]
                 THEN [h1 EXCEPT !.capturedWrite[b] = TRUE, !.newline[b] = TRUE]
                 ELSE h1
       IN  [h2 EXCEPT !.write = b]

\* Mutant: release puts the stream's own writer back, whatever was saved.
ReleaseToNative(h, b) ==
  IF ~optCapture[b] THEN h
  ELSE IF h.originalWrite[b] = Undefined THEN h
  ELSE [h EXCEPT !.write = Native]

\* Bracket.release
\* Mutant: release with nothing saved puts the stream's own writer back.
ReleaseResets(h, b) ==
  IF ~optCapture[b] THEN h
  ELSE IF h.originalWrite[b] = Undefined THEN [h EXCEPT !.write = Native]
  ELSE [h EXCEPT !.write = h.originalWrite[b]]

Release(h, b) ==
  IF ~optCapture[b] THEN h
  ELSE IF h.originalWrite[b] = Undefined THEN h
  ELSE [h EXCEPT !.write = h.originalWrite[b]]

\* this.taskSpinner?.stop()
TaskSpinnerStop(h, b) == IF HasSpinner(b) THEN SpinnerStop(h, b) ELSE h

\* range(this.options.taskGap ?? 0).forEach(() => this.write('\n'))
RECURSIVE WriteGap(_, _, _)
WriteGap(h, b, n) ==
  IF n = 0 THEN h ELSE WriteGap(BracketWrite(h, b, << <<"nl">> >>, "gap"), b, n - 1)

\* Mutant: task writes the gap before the first task too.
BracketTaskGapAlways(h, b, spinner) ==
  LET h1 == TaskSpinnerStop(h, b)
      h2 == WriteGap(h1, b, taskGap[b])
      h3 == [h2 EXCEPT !.currentTask[b] = TRUE]
      h4 == BracketWrite(h3, b, << <<"bullet", "description">> >>, "task")
      useSpinner == optTaskSpinner[b] /\ spinner
  IN  IF useSpinner /\ HasSpinner(b)
      THEN SpinnerStart(
             SpinnerWriteOnStop(BracketWrite(h4, b, << <<" ">> >>, "task"), b, TaskPayload), b)
      ELSE BracketWrite(h4, b, << <<"nl">> >>, "task")

\* Bracket.task(description, {spinner})
BracketTask(h, b, spinner) ==
  LET h1 == TaskSpinnerStop(h, b)
      h2 == IF h1.currentTask[b] THEN WriteGap(h1, b, taskGap[b]) ELSE h1
      h3 == [h2 EXCEPT !.currentTask[b] = TRUE]
      h4 == BracketWrite(h3, b, << <<"bullet", "description">> >>, "task")
      useSpinner == optTaskSpinner[b] /\ spinner
  IN  IF useSpinner /\ HasSpinner(b)
      THEN SpinnerStart(
             SpinnerWriteOnStop(BracketWrite(h4, b, << <<" ">> >>, "task"), b, TaskPayload), b)
      ELSE BracketWrite(h4, b, << <<"nl">> >>, "task")

\* Mutant: finalize prints the footer before it releases the stream.
BracketFinalizeFooterFirst(h, b) ==
  Release(PrintFooter(BracketLine(TaskSpinnerStop(h, b), b, <<>>, "blank"), b), b)

\* Bracket.finalize
BracketFinalize(h, b) ==
  PrintFooter(Release(BracketLine(TaskSpinnerStop(h, b), b, <<>>, "blank"), b), b)

\* Bracket.using up to the call of fn
UsingOpen(h, b) == BracketLine(Capture(PrintHeader(h, b), b), b, <<>>, "blank")

\* Bracket.usingSync up to the call of fn
UsingSyncOpen(h, b) == h

\* The whitespace of the strings of the model: the space and the newline.
Whitespace == {" ", "nl"}

\* The lengths of the whitespace at the start and at the end of a string
RECURSIVE LeadingWhitespace(_)
LeadingWhitespace(str) ==
  IF str = <<>> \/ Head(str) \notin Whitespace THEN 0 ELSE 1 + LeadingWhitespace(Tail(str))

RECURSIVE TrailingWhitespace(_)
TrailingWhitespace(str) ==
  IF str = <<>> \/ str[Len(str)] \notin Whitespace THEN 0
  ELSE 1 + TrailingWhitespace(SubSeq(str, 1, Len(str) - 1))

\* it.trim(), arg.trim()
Trim(str) ==
  LET lead == LeadingWhitespace(str)
  IN  IF lead = Len(str) THEN <<>>
      ELSE SubSeq(str, lead + 1, Len(str) - TrailingWhitespace(str))

\* -------------------------------------------------------------- shell.ts
\* The Spinner objects a local command can create: one per await.
ShellSpinners == 1..MaxAwait

\* createShell() and one call of $$: the promise is created, nothing runs.
\* state: "created", "running", "fulfilled", "rejected"; throws: the policy
\* of the promise; error: "none", "ShellError" or "other"; spinner: the
\* closure's variable, 0 for null; awaits: one record per call of `then`.
NewShell(verbose) ==
  [verbose |-> verbose, throws |-> TRUE, state |-> "created", error |-> "none",
   exitCode |-> -1, spinner |-> 0,
   timer |-> [s \in ShellSpinners |-> FALSE],
   currentFrame |-> [s \in ShellSpinners |-> 0],
   awaits |-> <<>>, stderr |-> <<>>, exited |-> -1,
   output |-> [stdout |-> <<>>, stderr |-> <<>>]]

\* process.stderr.write on behalf of await k (0: a spinner's interval)
Stderr(sh, k, toks) ==
  [sh EXCEPT !.stderr = @ \o [i \in 1..Len(toks) |-> [t |-> toks[i], k |-> k]]]

\* Spinner.start of the Spinner shell.ts constructs without a stream
ShellSpinnerStart(sh, s) ==
  IF sh.timer[s] THEN sh ELSE [sh EXCEPT !.timer[s] = TRUE]

\* Spinner.stop of that Spinner
ShellSpinnerStop(sh, s) ==
  IF ~sh.timer[s] THEN sh ELSE [sh EXCEPT !.timer[s] = FALSE]

\* The interval callback of that Spinner
ShellSpinnerTick(sh, s) ==
  [Stderr(sh, 0, <<frames[sh.currentFrame[s] + 1], "bs">>)
     EXCEPT !.currentFrame[s] = (@ + 1) % Len(frames)]

\* spinner?.stop()
StopCurrentSpinner(sh) == IF sh.spinner = 0 THEN sh ELSE ShellSpinnerStop(sh, sh.spinner)

\* logShellCommand
LogShellCommand(sh, k) == Stderr(sh, k, <<"command">>)

\* text.split('\n').map(it => it.trim()).filter(line => line.length > 0)
NonBlankLines(text) ==
  LET lines == SplitNl(text)
      trimmed == [i \in 1..Len(lines) |-> Trim(lines[i])]
      NotEmpty(line) == Len(line) > 0
  IN  SelectSeq(trimmed, NotEmpty)

\* logShellOutput: a newline for null, else the exit code line and one line
\* for each line of stdout and then of stderr that is not blank
LogShellOutput(sh, k, isNull) ==
  IF isNull THEN Stderr(sh, k, <<"nl">>)
  ELSE LET stdout == NonBlankLines(sh.output.stdout)
           stderr == NonBlankLines(sh.output.stderr)
       IN  Stderr(sh, k, <<"exitCode">> \o [i \in 1..Len(stdout) |-> "stdoutLine"]
                           \o [i \in 1..Len(stderr) |-> "stderrLine"])

\* The `then` the shell defines on the promise, up to orig_then.call
ShellThenCall(sh) ==
  LET k == Len(sh.awaits) + 1
      aw == [commandLogged |-> sh.verbose, spinner |-> IF sh.verbose THEN k ELSE 0,
             done |-> "waiting", result |-> -1, onrejected |-> FALSE]
      h1 == IF sh.verbose
            THEN ShellSpinnerStart([LogShellCommand(sh, k) EXCEPT !.spinner = k], k)
            ELSE sh
  IN  [h1 EXCEPT !.awaits = Append(@, aw),
                 !.state = IF @ = "created" THEN "running" ELSE @]

\* The fulfilment callback of await k
ShellOnFulfilled(sh, k) ==
  LET h1 == StopCurrentSpinner(sh)
      h2 == IF h1.verbose THEN LogShellOutput(h1, k, FALSE) ELSE h1
  IN  [h2 EXCEPT !.awaits[k].done = "yielded", !.awaits[k].result = h2.exitCode]

\* Mutant: the rejection callback hands the error to the caller's handler
\* instead of ending the process.
ShellOnRejectedRecovers(sh, k) ==
  LET h1 == StopCurrentSpinner(sh)
      h2 == IF ~h1.awaits[k].commandLogged
            THEN LogShellCommand(Stderr(h1, k, <<"failed">>), k)
            ELSE h1
      h3 == LogShellOutput(h2, k, h2.error # "ShellError")
  IN  [h3 EXCEPT !.awaits[k].done = "yielded", !.awaits[k].onrejected = TRUE]

\* The rejection callback of await k
ShellOnRejected(sh, k) ==
  LET h1 == StopCurrentSpinner(sh)
      h2 == IF ~h1.awaits[k].commandLogged
            THEN LogShellCommand(Stderr(h1, k, <<"failed">>), k)
            ELSE h1
      h3 == LogShellOutput(h2, k, h2.error # "ShellError")
  IN  [h3 EXCEPT !.awaits[k].done = "exited", !.exited = 1]

\* ---------------------------------------------------------------- ssh.ts
\* A string is a sequence of pieces; the pieces " " and "$" stand for the
\* characters the shell treats specially, "\"" and "\\" for a quote and a
\* backslash, any other piece for plain characters.
SpecialChars == {" ", "$", "\"", "\\"}
BackslashChars == {"$", "\"", "\\"}

RECURSIVE Backslashed(_)
Backslashed(str) ==
  IF str = <<>> THEN <<>>
  ELSE (IF Head(str) \in BackslashChars THEN <<"\\", Head(str)>> ELSE <<Head(str)>>)
         \o Backslashed(Tail(str))

\* $.escape: a string with special characters is quoted, and the characters
\* that stay special inside the quotes get a backslash.
Escape(str) ==
  IF \A i \in 1..Len(str) : str[i] \notin SpecialChars THEN str
  ELSE <<"\"">> \o Backslashed(str) \o <<"\"">>

\* expr.map(...).join(' ')
RECURSIVE JoinSpace(_)
JoinSpace(strs) ==
  IF strs = <<>> THEN <<>>
  ELSE IF Len(strs) = 1 THEN strs[1]
  ELSE strs[1] \o <<" ">> \o JoinSpace(Tail(strs))

\* {...env, ...value} on objects kept as sequences of [k, v] in key order
RECURSIVE Spread(_, _)
Spread(env, value) ==
  IF value = <<>> THEN env
  ELSE LET e == Head(value)
           at == {i \in 1..Len(env) : env[i].k = e.k}
       IN  Spread(IF at = {} THEN Append(env, e)
                  ELSE [i \in 1..Len(env) |-> IF i \in at THEN e ELSE env[i]],
                  Tail(value))

\* createSSHShell($, remote, options): optTty is options.tty ({} when absent)
NewSSHShell(optTty, stdoutIsTTY, sshArgs, optProxy) ==
  [defaultTTY |-> IF optTty # {} THEN CHOOSE t \in optTty : TRUE ELSE stdoutIsTTY,
   optTty |-> optTty, stdoutIsTTY |-> stdoutIsTTY,
   sshArgs |-> sshArgs, defaultEnv |-> <<>>, defaultCWD |-> {}, proxy |-> optProxy,
   handles |-> <<>>, execs |-> <<>>, invoked |-> 0, ops |-> 0]

\* The call $$`...`: the closure variables of one remote call.  atCall keeps
\* what the instance held when the call was created, envSet and cwdSet what
\* the caller has since set on the call, asked the last of throws/nothrow.
NewHandle(sh, strings, exprs) ==
  [strings |-> strings, exprs |-> exprs,
   env |-> sh.defaultEnv, cwd |-> sh.defaultCWD, tty |-> sh.defaultTTY,
   quiet |-> FALSE, shouldThrow |-> {}, sync |-> FALSE,
   atCall |-> [env |-> sh.defaultEnv, cwd |-> sh.defaultCWD, proxy |-> sh.proxy],
   envSet |-> <<>>, cwdSet |-> {}, asked |-> {}]

\* buildCmd
RECURSIVE BuildCmd(_, _, _)
BuildCmd(strings, exprs, i) ==
  IF i > Len(strings) THEN <<>>
  ELSE strings[i]
       \o (IF i <= Len(exprs)
           THEN IF exprs[i].isArray
                THEN JoinSpace([j \in 1..Len(exprs[i].v) |-> Escape(exprs[i].v[j])])
                ELSE Escape(exprs[i].v)
           ELSE <<>>)
       \o BuildCmd(strings, exprs, i + 1)

\* buildPrefix
RECURSIVE EnvPrefix(_)
EnvPrefix(env) ==
  IF env = <<>> THEN <<>>
  ELSE <<Head(env).k, "=">> \o Escape(Head(env).v) \o <<" ">> \o EnvPrefix(Tail(env))

\* Mutant: the env assignments come before the cd.
BuildPrefixEnvFirst(hd) ==
  LET cwd == IF hd.cwd = {} THEN <<>> ELSE CHOOSE c \in hd.cwd : TRUE
  IN  (IF Len(hd.env) > 0 THEN EnvPrefix(hd.env) ELSE <<>>)
        \o (IF cwd # <<>> THEN <<"cd", " ">> \o Escape(cwd) \o <<" ", "&&", " ">> ELSE <<>>)

BuildPrefix(hd) ==
  LET cwd == IF hd.cwd = {} THEN <<>> ELSE CHOOSE c \in hd.cwd : TRUE
  IN  (IF cwd # <<>> THEN <<"cd", " ">> \o Escape(cwd) \o <<" ", "&&", " ">> ELSE <<>>)
        \o (IF Len(hd.env) > 0 THEN EnvPrefix(hd.env) ELSE <<>>)

\* buildSSHFlags
BuildSSHFlags(sh, hd) ==
  (IF hd.tty THEN << <<"-t">> >> ELSE <<>>)
    \o (IF sh.proxy # {} THEN << <<"-J">>, CHOOSE x \in sh.proxy : TRUE >> ELSE <<>>)
    \o sh.sshArgs

\* The remote of the model
Remote == <<"host">>

\* What one execution was started with: the argument list, the env, cwd, tty
\* and proxy that were read to build it, and what the call's history was then.
Execution(sh, h, sync) ==
  LET hd == sh.handles[h]
      sshFlags == BuildSSHFlags(sh, hd)
      prefix == BuildPrefix(hd)
      cmd == BuildCmd(hd.strings, hd.exprs, 1)
  IN  [h |-> h, sync |-> sync,
       args |-> << <<"ssh">> >> \o sshFlags \o <<Remote, prefix \o cmd>>,
       env |-> hd.env, cwd |-> hd.cwd, tty |-> hd.tty, proxy |-> sh.proxy,
       quiet |-> ~sync /\ hd.quiet,
       throws |-> IF sync \/ hd.shouldThrow = {} THEN "default"
                  ELSE IF TRUE \in hd.shouldThrow THEN "always" ELSE "never",
       asked |-> hd.asked, atCall |-> hd.atCall, envSet |-> hd.envSet,
       cwdSet |-> hd.cwdSet]

\* run
Run(sh, h) == [sh EXCEPT !.execs = Append(@, Execution(sh, h, FALSE))]

\* runSync
RunSync(sh, h) == [sh EXCEPT !.execs = Append(@, Execution(sh, h, TRUE))]

\* Mutant: env(value) replaces the env of the call.
HandleEnvReplaces(sh, h, value) ==
  [sh EXCEPT !.handles[h].env = value,
             !.handles[h].envSet = Spread(@, value)]

\* promise.env(value)
HandleEnv(sh, h, value) ==
  [sh EXCEPT !.handles[h].env = Spread(@, value),
             !.handles[h].envSet = Spread(@, value)]

\* promise.cwd(value)
HandleCwd(sh, h, value) ==
  [sh EXCEPT !.handles[h].cwd = {value}, !.handles[h].cwdSet = {value}]

\* promise.quiet()
HandleQuiet(sh, h) == [sh EXCEPT !.handles[h].quiet = TRUE]

\* promise.throws(shouldThrow): the assignment is of the parameter to itself
HandleThrows(sh, h, b) == [sh EXCEPT !.handles[h].asked = {b}]

\* promise.nothrow()
HandleNothrow(sh, h) ==
  [sh EXCEPT !.handles[h].shouldThrow = {FALSE}, !.handles[h].asked = {FALSE}]

\* ------------------------------------------------- shell.ts: buildCommand
\* The pieces \s matches: a space and a newline.
\* An expression: type is "raw" (a {raw} object), "string", "number",
\* "boolean", "array" or "other"; v the string (of a number or of anything
\* else: its text), b the boolean, items the elements of an array.
Expr(type, v, b, items) == [type |-> type, v |-> v, b |-> b, items |-> items]

\* Mutant: the literal text is taken as it is.
KeepWhitespace(str) == str

\* part.replace(/\s+/g, ' ')
RECURSIVE CollapseWhitespace(_)
CollapseWhitespace(str) ==
  IF str = <<>> THEN <<>>
  ELSE IF Head(str) \notin Whitespace THEN <<Head(str)>> \o CollapseWhitespace(Tail(str))
  ELSE IF Len(str) > 1 /\ str[2] \in Whitespace THEN CollapseWhitespace(Tail(str))
  ELSE <<" ">> \o CollapseWhitespace(Tail(str))

\* arg.replace(/^\s+|\s+$/, ' '): the first match only
ReplaceEdge(str) ==
  IF LeadingWhitespace(str) > 0
  THEN <<" ">> \o SubSeq(str, LeadingWhitespace(str) + 1, Len(str))
  ELSE IF TrailingWhitespace(str) > 0
  THEN SubSeq(str, 1, Len(str) - TrailingWhitespace(str)) \o <<" ">>
  ELSE str

\* Mutant: the elements of an array are joined without a space.
RECURSIVE JoinArrayNoSpace(_)
JoinArrayNoSpace(strs) ==
  IF strs = <<>> THEN <<>> ELSE Head(strs) \o JoinArrayNoSpace(Tail(strs))

\* expr.map(fmt).join(' ')
JoinArray(strs) == JoinSpace(strs)

\* fmt
RECURSIVE Fmt(_)
Fmt(expr) ==
  CASE expr.type = "raw" -> expr.v
    [] expr.type \in {"string", "number"} -> Escape(expr.v)
    [] expr.type = "boolean" -> IF expr.b THEN <<"true">> ELSE <<"false">>
    [] expr.type = "array" -> JoinArray([i \in 1..Len(expr.items) |-> Fmt(expr.items[i])])
    [] OTHER -> expr.v

\* buildCommand
RECURSIVE BuildCommand(_, _, _)
BuildCommand(parts, expressions, i) ==
  IF i > Len(parts) THEN <<>>
  ELSE CollapseWhitespace(parts[i])
       \o (IF i <= Len(expressions)
           THEN ReplaceEdge(Trim(Fmt(expressions[i])))
           ELSE <<>>)
       \o BuildCommand(parts, expressions, i + 1)

\* ------------------------------------------------------------ cleanup.ts
\* The routines of the model: routine 1 returns, routine 2 throws, routine 3
\* calls its own unregister function and returns (as TmpDir.disposeSync does).
Routines == {1, 2, 3}
Throws(f) == f = 2
Detaches(f) == f = 3

Signals == {"SIGINT", "SIGTERM", "SIGHUP", "SIGQUIT"}

\* The module once loaded: ROUTINES is empty and the listeners are installed.
\* ROUTINES is the Set in insertion order; runs, adds and detached count, per
\* routine, its runs, the times it was added to the Set, and whether its
\* unregister function was called since it was last registered; cleanups
\* counts the calls of cleanupNow, ran lists the routines the last one called,
\* threw tells whether an error left it.
NewProcess ==
  [ROUTINES |-> <<>>, alive |-> TRUE, exitCode |-> -1, signal |-> "none",
   warnings |-> 0, threw |-> FALSE, cleanups |-> 0, ran |-> <<>>,
   runs |-> [f \in Routines |-> 0], adds |-> [f \in Routines |-> 0],
   detached |-> [f \in Routines |-> FALSE], ops |-> 0]

Registered(p, f) == \E i \in 1..Len(p.ROUTINES) : p.ROUTINES[i] = f

\* ROUTINES.delete(routine)
SetDelete(p, f) ==
  LET Other(g) == g # f IN [p EXCEPT !.ROUTINES = SelectSeq(@, Other)]

\* cleanup(routine)
CleanupAdd(p, f) ==
  IF Registered(p, f) THEN [p EXCEPT !.detached[f] = FALSE]
  ELSE [p EXCEPT !.ROUTINES = Append(@, f), !.adds[f] = @ + 1, !.detached[f] = FALSE]

\* The function cleanup(routine) returned
CleanupRemove(p, f) == [SetDelete(p, f) EXCEPT !.detached[f] = TRUE]

\* routine(), inside the try of cleanupNow
RunRoutine(p, f) ==
  LET p1 == [p EXCEPT !.runs[f] = @ + 1, !.ran = Append(@, f)]
      p2 == IF Detaches(f) THEN CleanupRemove(p1, f) ELSE p1
  IN  IF Throws(f) THEN [p2 EXCEPT !.warnings = @ + 1] ELSE p2

\* Mutant: the loop has no try, the first error leaves cleanupNow.
RECURSIVE ForEachRoutineUncaught(_, _)
ForEachRoutineUncaught(p, i) ==
  IF i > Len(p.ROUTINES) THEN p
  ELSE LET f == p.ROUTINES[i]
           p1 == [p EXCEPT !.runs[f] = @ + 1, !.ran = Append(@, f)]
       IN  IF Throws(f) THEN [p1 EXCEPT !.threw = TRUE]
           ELSE ForEachRoutineUncaught(p1, i + 1)

\* for (const routine of ROUTINES): the routine at place i and those after it
RECURSIVE ForEachRoutine(_, _)
ForEachRoutine(p, i) ==
  IF i > Len(p.ROUTINES) THEN p
  ELSE LET f == p.ROUTINES[i]
           p1 == RunRoutine(p, f)
       IN  ForEachRoutine(p1, IF Registered(p1, f) THEN i + 1 ELSE i)

\* Mutant: cleanupNow leaves the registry as it is.
CleanupNowKeeps(p) ==
  ForEachRoutine([p EXCEPT !.cleanups = @ + 1, !.ran = <<>>], 1)

\* cleanupNow
CleanupNow(p) ==
  LET p1 == ForEachRoutine([p EXCEPT !.cleanups = @ + 1, !.ran = <<>>], 1)
  IN  [p1 EXCEPT !.ROUTINES = <<>>]

\* ------------------------------------------------ the spinner on its own
\* A Spinner (spinner 1) driven directly on a stream nobody captures.
Payloads == {<<>>, <<"p">>}

InitObjects ==
  /\ write = Native
  /\ out = <<>>
  /\ timer = [b \in Brackets |-> FALSE]
  /\ armed = [b \in Brackets |-> 0]
  /\ currentFrame = [b \in Brackets |-> 0]
  /\ writing = [b \in Brackets |-> FALSE]
  /\ writeOnStop = [b \in Brackets |-> {}]
  /\ optCapture = [b \in Brackets |-> TRUE]
  /\ currentTask = [b \in Brackets |-> FALSE]
  /\ originalWrite = [b \in Brackets |-> Undefined]
  /\ capturedWrite = [b \in Brackets |-> FALSE]
  /\ newline = [b \in Brackets |-> TRUE]
  /\ phase = [b \in Brackets |-> "new"]
  /\ pre = [b \in Brackets |-> Undefined]

SpinnerInit ==
  /\ InitObjects
  /\ taskGap = [b \in Brackets |-> 0]
  /\ isTTY = FALSE
  /\ optTaskSpinner = [b \in Brackets |-> TRUE]
  /\ shell = NewShell(FALSE)
  /\ ssh = NewSSHShell({}, FALSE, <<>>, {})
  /\ built = [parts |-> <<>>, expressions |-> <<>>, out |-> <<>>, done |-> FALSE]
  /\ proc = NewProcess

Start ==
  /\ Len(out) < MaxSpin
  /\ Commit(SpinnerStart(Heap, 1), "start", 1)
  /\ UNCHANGED <<phase, pre>>

Stop ==
  /\ Len(out) < MaxSpin
  /\ Commit(SpinnerStop(Heap, 1), "stop", 1)
  /\ UNCHANGED <<phase, pre>>

\* The interval fires: only an armed interval can.
SpinTick ==
  /\ Len(out) < MaxSpin
  /\ armed[1] > 0
  /\ Commit(SpinnerTick(Heap, 1), "tick", 1)
  /\ UNCHANGED <<phase, pre>>

WriteOnStop ==
  /\ Len(out) < MaxSpin
  /\ \E value \in Payloads : Commit(SpinnerWriteOnStop(Heap, 1, value), "writeOnStop", 1)
  /\ UNCHANGED <<phase, pre>>

SpinnerNext == Start \/ Stop \/ SpinTick \/ WriteOnStop

SpinnerSpec == SpinnerInit /\ [][SpinnerNext]_vars

\* ------------------------------------------------- brackets on a stream
\* What a caller writes to the stream: text without and with a newline, and
\* a Uint8Array.
Chunks ==
  { [text |-> TRUE, toks |-> <<"a">>],
    [text |-> TRUE, toks |-> <<"b", "nl">>],
    [text |-> FALSE, toks |-> <<"x">>] }

Init ==
  /\ InitObjects
  /\ taskGap = [b \in Brackets |-> 0]
  /\ isTTY \in BOOLEAN
  /\ optTaskSpinner \in [Brackets -> BOOLEAN]
  /\ shell = NewShell(FALSE)
  /\ ssh = NewSSHShell({}, FALSE, <<>>, {})
  /\ built = [parts |-> <<>>, expressions |-> <<>>, out |-> <<>>, done |-> FALSE]
  /\ proc = NewProcess

\* A usingSync callback is on the stack: nothing else runs until it returns.
SyncActive == \E b \in Brackets : phase[b] = "sync"

\* bracket.using(fn) runs to the first await inside fn
UsingEnter(b) ==
  /\ Len(out) < MaxOut
  /\ phase[b] = "new" /\ ~SyncActive
  /\ Commit(UsingOpen(Heap, b), "using", b)
  /\ phase' = [phase EXCEPT ![b] = "using"]
  /\ pre' = [pre EXCEPT ![b] = write]

\* fn's promise settles (threw: it rejected) and the finally block runs
UsingExit(b) ==
  /\ Len(out) < MaxOut
  /\ phase[b] = "using" /\ ~SyncActive
  /\ \E threw \in BOOLEAN :
       Commit(BracketFinalize(Heap, b), IF threw THEN "usingThrew" ELSE "usingReturned", b)
  /\ phase' = [phase EXCEPT ![b] = "done"]
  /\ UNCHANGED pre

\* bracket.usingSync(fn) calls fn
UsingSyncEnter(b) ==
  /\ Len(out) < MaxOut
  /\ phase[b] = "new" /\ ~SyncActive
  /\ Commit(UsingSyncOpen(Heap, b), "usingSync", b)
  /\ phase' = [phase EXCEPT ![b] = "sync"]
  /\ pre' = [pre EXCEPT ![b] = write]

\* fn returns or throws and the finally block runs
UsingSyncExit(b) ==
  /\ Len(out) < MaxOut
  /\ phase[b] = "sync"
  /\ \E threw \in BOOLEAN :
       Commit(BracketFinalize(Heap, b), IF threw THEN "syncThrew" ELSE "syncReturned", b)
  /\ phase' = [phase EXCEPT ![b] = "done"]
  /\ UNCHANGED pre

\* The callback calls bracket.task(description, {spinner}); "taskPlain" is
\* the call with {spinner: false}
Task(b) ==
  /\ Len(out) < MaxOut
  /\ phase[b] \in {"using", "sync"}
  /\ SyncActive => phase[b] = "sync"
  /\ \E spinner \in BOOLEAN :
       Commit(BracketTask(Heap, b, spinner), IF spinner THEN "task" ELSE "taskPlain", b)
  /\ UNCHANGED <<phase, pre>>

\* bracket.finalize() called by hand: on a bracket never opened, or again
\* after its scope has closed
Finalize(b) ==
  /\ Len(out) < MaxOut
  /\ phase[b] \in {"new", "done"} /\ ~SyncActive
  /\ Commit(BracketFinalize(Heap, b), "finalize", b)
  /\ UNCHANGED <<phase, pre>>

\* Anyone calls stream.write(chunk)
ClientWrite ==
  /\ Len(out) < MaxOut
  /\ \E c \in Chunks : Commit(StreamWrite(Heap, c.toks, By("client", 0), c.text), "write", 0)
  /\ UNCHANGED <<phase, pre>>

\* The interval of spinner s fires, between two handlers
Tick(s) ==
  /\ Len(out) < MaxOut
  /\ armed[s] > 0 /\ ~SyncActive
  /\ Commit(SpinnerTick(Heap, s), "tick", s)
  /\ UNCHANGED <<phase, pre>>

Next ==
  \/ \E b \in Brackets :
       UsingEnter(b) \/ UsingExit(b) \/ UsingSyncEnter(b) \/ UsingSyncExit(b)
         \/ Task(b) \/ Finalize(b) \/ Tick(b)
  \/ ClientWrite

Spec == Init /\ [][Next]_vars

\* ------------------------------------------- tasks and lines in pieces
\* The taskGap option: unset, which counts as 0, or a number of lines.
TaskGaps == {0, MaxGap}

\* Brackets on a stream that is not a terminal, so that they keep their
\* spinners, all with the same taskGap.
TaskInit ==
  /\ InitObjects
  /\ isTTY = FALSE
  /\ optTaskSpinner = [b \in Brackets |-> TRUE]
  /\ \E gap \in TaskGaps : taskGap = [b \in Brackets |-> gap]
  /\ shell = NewShell(FALSE)
  /\ ssh = NewSSHShell({}, FALSE, <<>>, {})
  /\ built = [parts |-> <<>>, expressions |-> <<>>, out |-> <<>>, done |-> FALSE]
  /\ proc = NewProcess

IsWrite(g) == g.op = "write"

\* A callback writes a line to the stream, whole or a piece at a time
LineWrite ==
  /\ \E b \in Brackets : phase[b] = "using"
  /\ Len(SelectSeq(out, IsWrite)) < MaxLine
  /\ \E c \in {<<"a">>, <<"b", "nl">>} :
       Commit(StreamWrite(Heap, c, By("client", 0), TRUE), "write", 0)
  /\ UNCHANGED <<phase, pre>>

TaskNext ==
  \/ \E b \in Brackets : UsingEnter(b) \/ Task(b) \/ Tick(b)
  \/ LineWrite

TaskSpec == TaskInit /\ [][TaskNext]_vars

\* ------------------------------------------------- captures, no spinner
\* Every text of one or two characters over {a, newline}, and the texts
\* "ab", "c\n" and "abc\n".
SplitChunks ==
  { <<"a">>, <<"nl">>, <<"a", "a">>, <<"a", "nl">>, <<"nl", "a">>, <<"nl", "nl">>,
    <<"a", "b">>, <<"c", "nl">>, <<"a", "b", "c", "nl">> }

\* An interactive stream: the constructor leaves the bracket without a spinner.
CaptureInit ==
  /\ InitObjects
  /\ taskGap = [b \in Brackets |-> 0]
  /\ isTTY = TRUE
  /\ optTaskSpinner = [b \in Brackets |-> TRUE]
  /\ shell = NewShell(FALSE)
  /\ ssh = NewSSHShell({}, FALSE, <<>>, {})
  /\ built = [parts |-> <<>>, expressions |-> <<>>, out |-> <<>>, done |-> FALSE]
  /\ proc = NewProcess

\* A callback writes a text to the stream
SplitWrite ==
  /\ \E b \in Brackets : phase[b] = "using"
  /\ Len(out) < Cardinality(Brackets) + MaxSplit
  /\ \E c \in SplitChunks : Commit(StreamWrite(Heap, c, By("client", 0), TRUE), "write", 0)
  /\ UNCHANGED <<phase, pre>>

CaptureNext == (\E b \in Brackets : UsingEnter(b)) \/ SplitWrite

CaptureSpec == CaptureInit /\ [][CaptureNext]_vars

\* ---------------------------------------------- one local shell command
\* The variables of the logging classes, which a shell command leaves alone.
loggingVars ==
  <<write, isTTY, out, timer, armed, currentFrame, writing, writeOnStop,
    optTaskSpinner, optCapture, taskGap, currentTask, originalWrite,
    capturedWrite, newline, phase, pre>>

\* createShell({verbose}) and one $$`...`
ShellInit ==
  /\ InitObjects
  /\ taskGap = [b \in Brackets |-> 0]
  /\ isTTY = FALSE
  /\ optTaskSpinner = [b \in Brackets |-> TRUE]
  /\ \E verbose \in BOOLEAN : shell = NewShell(verbose)
  /\ ssh = NewSSHShell({}, FALSE, <<>>, {})
  /\ built = [parts |-> <<>>, expressions |-> <<>>, out |-> <<>>, done |-> FALSE]
  /\ proc = NewProcess

\* The promise has settled and a callback of it has not run yet: these run
\* as microtasks, before any timer and before the script goes on.
ShellPending ==
  /\ shell.state \in {"fulfilled", "rejected"}
  /\ \E k \in 1..Len(shell.awaits) : shell.awaits[k].done = "waiting"

ShellAlive == shell.exited = -1

\* What a command writes: "x\n" to stdout when it succeeds; when it fails
\* "e\n \n\ne" or MaxOutputLines lines "e\n" to stderr.
Outputs(outcome) ==
  CASE outcome = "exit0" -> {[stdout |-> <<"x", "nl">>, stderr |-> <<>>]}
    [] outcome = "exit1" ->
         {[stdout |-> <<>>, stderr |-> <<"e", "nl", " ", "nl", "nl", "e">>],
          [stdout |-> <<"x", "nl">>,
           stderr |-> [i \in 1..(2 * MaxOutputLines) |-> IF i % 2 = 1 THEN "e" ELSE "nl"]]}
    [] OTHER -> {[stdout |-> <<>>, stderr |-> <<>>]}

\* $$.verbose(verbose)
ShellVerbose ==
  /\ ShellAlive /\ ~ShellPending
  /\ \E verbose \in BOOLEAN :
       verbose # shell.verbose /\ shell' = [shell EXCEPT !.verbose = verbose]
  /\ UNCHANGED <<loggingVars, ssh, built, proc>>

\* promise.nothrow() and promise.throws(b), before the command runs
ShellThrows ==
  /\ ShellAlive /\ shell.state = "created"
  /\ \E b \in BOOLEAN : b # shell.throws /\ shell' = [shell EXCEPT !.throws = b]
  /\ UNCHANGED <<loggingVars, ssh, built, proc>>

\* The promise is awaited: its `then` is called
ShellThen ==
  /\ ShellAlive /\ ~ShellPending
  /\ Len(shell.awaits) < MaxAwait
  /\ shell' = ShellThenCall(shell)
  /\ UNCHANGED <<loggingVars, ssh, built, proc>>

\* The command ends: it exits with 0 or with 1, or it could not be started.
\* The promise rejects unless it has an exit code that the policy lets pass.
ShellSettle ==
  /\ ShellAlive /\ shell.state = "running"
  /\ \E outcome \in {"exit0", "exit1", "notStarted"} : \E output \in Outputs(outcome) :
       shell' = [shell EXCEPT
         !.output = output,
         !.exitCode = CASE outcome = "exit0" -> 0 [] outcome = "exit1" -> 1 [] OTHER -> -1,
         !.error = CASE outcome = "notStarted" -> "other"
                     [] outcome = "exit1" /\ shell.throws -> "ShellError"
                     [] OTHER -> "none",
         !.state = IF outcome = "notStarted" \/ (outcome = "exit1" /\ shell.throws)
                   THEN "rejected" ELSE "fulfilled"]
  /\ UNCHANGED <<loggingVars, ssh, built, proc>>

\* The next callback of the settled promise runs
ShellCallback ==
  /\ ShellAlive /\ ShellPending
  /\ LET k == CHOOSE j \in 1..Len(shell.awaits) :
                 /\ shell.awaits[j].done = "waiting"
                 /\ \A i \in 1..(j - 1) : shell.awaits[i].done # "waiting"
     IN  shell' = IF shell.state = "fulfilled" THEN ShellOnFulfilled(shell, k)
                  ELSE ShellOnRejected(shell, k)
  /\ UNCHANGED <<loggingVars, ssh, built, proc>>

\* The interval of spinner s fires
ShellTick(s) ==
  /\ ShellAlive /\ ~ShellPending
  /\ shell.timer[s]
  /\ Len(shell.stderr) < MaxStderr
  /\ shell' = ShellSpinnerTick(shell, s)
  /\ UNCHANGED <<loggingVars, ssh, built, proc>>

ShellNext ==
  \/ ShellVerbose \/ ShellThrows \/ ShellThen \/ ShellSettle \/ ShellCallback
  \/ \E s \in ShellSpinners : ShellTick(s)

ShellSpec == ShellInit /\ [][ShellNext]_vars

\* ------------------------------------------------------ one SSH shell
\* The object given to $$.env and the one given to promise.env, the
\* directories given to $$.cwd and to promise.cwd, the proxies given to
\* $$.proxy, and the sshArgs option.
DefaultEnvInputs == { << [k |-> "A", v |-> <<"1">>], [k |-> "B", v |-> <<"1">>] >> }
CallEnvInputs == { << [k |-> "A", v |-> <<"2", " ", "$">>] >> }
DefaultCwdInputs == {{<<"/tmp">>}, {}}
CallCwdInputs == {<<"/my", " ", "dir">>, <<>>}
ProxyInputs == {{<<"jump">>}, {}}
SshArgs == << <<"-p">>, <<"22">> >>

\* The command of the model: ssh`cat ${"a b"} ${["x", "$y"]} >f`
SshCommands ==
  { [strings |-> << <<"cat", " ">>, <<" ">>, <<" ", ">f">> >>,
     exprs |-> << [isArray |-> FALSE, v |-> <<"a", " ", "b">>],
                  [isArray |-> TRUE, v |-> << <<"x">>, <<"$", "y">> >>] >>] }

\* $.ssh(remote, {tty, sshArgs, proxy}) on a terminal that is or is not a TTY
SshInit ==
  /\ InitObjects
  /\ taskGap = [b \in Brackets |-> 0]
  /\ isTTY = FALSE
  /\ optTaskSpinner = [b \in Brackets |-> TRUE]
  /\ shell = NewShell(FALSE)
  /\ built = [parts |-> <<>>, expressions |-> <<>>, out |-> <<>>, done |-> FALSE]
  /\ proc = NewProcess
  /\ \E optTty \in {{}, {TRUE}, {FALSE}}, stdoutIsTTY \in BOOLEAN,
        optProxy \in {{}, {<<"gw">>}} :
       ssh = NewSSHShell(optTty, stdoutIsTTY, SshArgs, optProxy)

\* One more operation on the SSH shell or on one of its calls
SshStep(sh) ==
  /\ ssh.ops < MaxSshOps
  /\ ssh' = [sh EXCEPT !.ops = @ + 1]
  /\ UNCHANGED <<loggingVars, shell, built, proc>>

Handles == 1..Len(ssh.handles)

\* $$.env(value)
SshEnv == \E value \in DefaultEnvInputs : SshStep([ssh EXCEPT !.defaultEnv = Spread(@, value)])

\* $$.cwd(value)
SshCwd == \E value \in DefaultCwdInputs : SshStep([ssh EXCEPT !.defaultCWD = value])

\* $$.proxy(value)
SshProxy == \E value \in ProxyInputs : SshStep([ssh EXCEPT !.proxy = value])

\* $$`...`
SshCall ==
  /\ Len(ssh.handles) < MaxHandles
  /\ \E c \in SshCommands :
       SshStep([ssh EXCEPT !.handles = Append(@, NewHandle(ssh, c.strings, c.exprs))])

\* $$.test`...`, up to the await
SshTest ==
  /\ Len(ssh.handles) < MaxHandles
  /\ \E c \in SshCommands :
       LET h == Len(ssh.handles) + 1
           s1 == [ssh EXCEPT !.handles = Append(@, NewHandle(ssh, c.strings, c.exprs))]
       IN  SshStep([Run(HandleNothrow(s1, h), h) EXCEPT !.invoked = @ + 1])

\* promise.env(value)
CallEnv(h) == \E value \in CallEnvInputs : SshStep(HandleEnv(ssh, h, value))

\* promise.cwd(value)
CallCwd(h) == \E value \in CallCwdInputs : SshStep(HandleCwd(ssh, h, value))

\* promise.quiet()
CallQuiet(h) == SshStep(HandleQuiet(ssh, h))

\* promise.throws(b)
CallThrows(h) == \E b \in BOOLEAN : SshStep(HandleThrows(ssh, h, b))

\* promise.nothrow()
CallNothrow(h) == SshStep(HandleNothrow(ssh, h))

\* promise.then, promise.catch, promise.finally: the call is awaited
CallAwait(h) ==
  \E op \in {"then", "catch", "finally"} :
    SshStep([Run(ssh, h) EXCEPT !.invoked = @ + 1])

\* The output accessors stdin, lines, text, json, arrayBuffer and blob
CallAccessor(h) ==
  \E op \in {"stdin", "lines", "text", "json", "arrayBuffer", "blob"} :
    SshStep([Run(ssh, h) EXCEPT !.invoked = @ + 1])

\* promise.sync()
CallSync(h) == SshStep([RunSync(ssh, h) EXCEPT !.invoked = @ + 1])

\* promise[Symbol.toStringTag]
CallToStringTag(h) == SshStep(Run(ssh, h))

SshNext ==
  \/ SshEnv \/ SshCwd \/ SshProxy \/ SshCall \/ SshTest
  \/ \E h \in Handles :
       CallEnv(h) \/ CallCwd(h) \/ CallQuiet(h) \/ CallThrows(h) \/ CallNothrow(h)
         \/ CallAwait(h) \/ CallAccessor(h) \/ CallSync(h) \/ CallToStringTag(h)

SshSpec == SshInit /\ [][SshNext]_vars

\* ------------------------------------------------- one logged command
\* The scalar expressions: the strings "a", "b c" and " d", the number 42
\* and the booleans.
Scalars ==
  { Expr("string", <<"a">>, FALSE, <<>>), Expr("string", <<"b", " ", "c">>, FALSE, <<>>),
    Expr("string", <<" ", "d">>, FALSE, <<>>), Expr("number", <<"42">>, FALSE, <<>>),
    Expr("boolean", <<>>, TRUE, <<>>), Expr("boolean", <<>>, FALSE, <<>>) }

\* {raw: "-x"}, {raw: "$HOME/a b"}, {raw: " -x"}, {raw: "-x\n"}
Raws ==
  { Expr("raw", <<"-x">>, FALSE, <<>>), Expr("raw", <<"$", "HOME/a", " ", "b">>, FALSE, <<>>),
    Expr("raw", <<" ", "-x">>, FALSE, <<>>), Expr("raw", <<"-x", "nl">>, FALSE, <<>>) }

\* The arrays of at most MaxArray scalars
Arrays ==
  { Expr("array", <<>>, FALSE, items) :
      items \in UNION {[1..n -> Scalars] : n \in 0..MaxArray} }

\* null
Others == { Expr("other", <<"null">>, FALSE, <<>>) }

\* The templates: `echo ${e}`, `ls  ${e} \n>f` and `${e}`
Templates ==
  { << <<"echo", " ">>, <<>> >>,
    << <<"ls", " ", " ">>, <<" ", "nl", ">f">> >>,
    << <<>>, <<>> >> }

\* $$`...${e}...` with one expression, before it is logged
BuildInit ==
  /\ InitObjects
  /\ taskGap = [b \in Brackets |-> 0]
  /\ isTTY = FALSE
  /\ optTaskSpinner = [b \in Brackets |-> TRUE]
  /\ shell = NewShell(FALSE)
  /\ ssh = NewSSHShell({}, FALSE, <<>>, {})
  /\ proc = NewProcess
  /\ \E parts \in Templates, e \in Scalars \cup Raws \cup Arrays \cup Others :
       built = [parts |-> parts, expressions |-> <<e>>, out |-> <<>>, done |-> FALSE]

\* logShellCommand's call of buildCommand
LogCommand ==
  /\ ~built.done
  /\ built' = [built EXCEPT !.out = BuildCommand(built.parts, built.expressions, 1),
                            !.done = TRUE]
  /\ UNCHANGED <<loggingVars, shell, ssh, proc>>

BuildNext == LogCommand

BuildSpec == BuildInit /\ [][BuildNext]_vars

\* ------------------------------------------- the registry and the process
CleanupInit ==
  /\ InitObjects
  /\ taskGap = [b \in Brackets |-> 0]
  /\ isTTY = FALSE
  /\ optTaskSpinner = [b \in Brackets |-> TRUE]
  /\ shell = NewShell(FALSE)
  /\ ssh = NewSSHShell({}, FALSE, <<>>, {})
  /\ built = [parts |-> <<>>, expressions |-> <<>>, out |-> <<>>, done |-> FALSE]
  /\ proc = NewProcess

\* One more step of the running process
ProcStep(p) ==
  /\ proc.alive /\ proc.ops < MaxCleanupOps
  /\ proc' = [p EXCEPT !.ops = @ + 1]
  /\ UNCHANGED <<loggingVars, shell, ssh, built>>

\* cleanup(routine)
Register(f) == ProcStep(CleanupAdd(proc, f))

\* A function that cleanup(routine) returned is called
Unregister(f) ==
  /\ proc.adds[f] > 0
  /\ ProcStep(CleanupRemove(proc, f))

\* A signal arrives: its listener is cleanupNow, and a signal that has a
\* listener no longer ends the process.
Signal(sig) == ProcStep([CleanupNow(proc) EXCEPT !.signal = sig])

\* The process exits, by process.exit(code) or by running out of work: the
\* 'exit' listener runs and the process ends.
Exit(code) == ProcStep([CleanupNow(proc) EXCEPT !.alive = FALSE, !.exitCode = code])

CleanupNext ==
  \/ \E f \in Routines : Register(f) \/ Unregister(f)
  \/ \E sig \in Signals : Signal(sig)
  \/ \E code \in {0, 1} : Exit(code)

CleanupSpec == CleanupInit /\ [][CleanupNext]_vars

\* ------------------------------------------------------ reading the trace
LastOp == out[Len(out)]
\* The step just taken was the operation op.
Did(op) == Len(out') = Len(out) + 1 /\ out'[Len(out')].op = op
\* The tokens of a group, as text.
Text(g) == [i \in 1..Len(g.toks) |-> g.toks[i].t]
\* All entries of the trace, in the order they reached the stream.
RECURSIVE Flat(_)
Flat(tr) == IF tr = <<>> THEN <<>> ELSE Flat(SubSeq(tr, 1, Len(tr) - 1)) \o tr[Len(tr)].toks
\* ----------------------------------------------------------------- C2
IsPayload(e) == e.kind = "payload"
\* A stop group i writes a payload only if writeOnStop was called after the
\* last stop before it that found the spinner running.
PayloadOnlyOnce(tr) ==
  \A i \in 1..Len(tr) :
    (tr[i].op = "stop" /\ SelectSeq(tr[i].toks, IsPayload) # <<>>) =>
      \E j \in 1..(i - 1) :
        /\ tr[j].op = "writeOnStop"
        /\ \A k \in (j + 1)..(i - 1) : ~(tr[k].op = "stop" /\ tr[k].toks # <<>>)

\* C2: stop() while running with a pending writeOnStop payload p writes the
\* erase sequence and then p, each once, clears the payload and leaves the
\* spinner stopped; no later stop() writes a payload that was not queued anew.
C2_StopWritesPayloadOnce ==
  [][Did("stop") =>
       /\ (timer[1] /\ writeOnStop[1] # {}) =>
            /\ Text(out'[Len(out')]) = <<"erase">> \o (CHOOSE p \in writeOnStop[1] : TRUE)
            /\ writeOnStop'[1] = {}
            /\ ~timer'[1]
       /\ PayloadOnlyOnce(out')]_vars

\* A payload was written by a stop, and a later start/stop cycle ran without it.
C2_Witness ==
  \E i, j \in 1..Len(out) :
    /\ i < j
    /\ out[i].op = "stop" /\ Text(out[i]) = <<"erase", "p">>
    /\ out[j].op = "stop" /\ Text(out[j]) = <<"erase">>

\* ----------------------------------------------------------------- C3
\* C3: stop() while the spinner is not running writes nothing and changes
\* neither the running flag, the frame index nor the pending payload.
C3_StopIdempotent ==
  [][(Did("stop") /\ ~timer[1]) =>
       /\ out'[Len(out')].toks = <<>>
       /\ UNCHANGED <<timer, armed, currentFrame, writing, writeOnStop>>]_vars

\* stop() was called on a stopped spinner that holds a pending payload.
C3_Witness ==
  /\ Len(out) >= 2
  /\ LastOp.op = "stop" /\ LastOp.toks = <<>>
  /\ out[Len(out) - 1].op = "writeOnStop"
  /\ writeOnStop[1] = {<<"p">>}
  /\ ~timer[1]

\* ----------------------------------------------------------------- C4
IsFrame(e) == e.kind = "frame" /\ e.glyph = 0 /\ e.t # "bs"
\* The glyphs written so far are -, \, |, / repeating, beginning with -.
GlyphCycle(tr) ==
  LET glyphs == SelectSeq(Flat(tr), IsFrame)
  IN  \A k \in 1..Len(glyphs) : glyphs[k].t = <<"-", "\\", "|", "/">>[((k - 1) % 4) + 1]

\* C4: every tick writes one glyph and a backspace, the glyphs written form
\* the cycle - \ | / from -, and the frame index moves by one modulo 4 on a
\* tick and on no other operation.
C4_FrameCycle ==
  [][/\ Did("tick") =>
          /\ Len(out'[Len(out')].toks) = 2
          /\ out'[Len(out')].toks[2].t = "bs"
          /\ currentFrame'[1] = (currentFrame[1] + 1) % 4
     /\ ~Did("tick") => currentFrame'[1] = currentFrame[1]
     /\ GlyphCycle(out')]_vars

\* Five glyphs were written, across a stop and a restart: the cycle wrapped.
C4_Witness ==
  /\ Len(SelectSeq(Flat(out), IsFrame)) >= 5
  /\ \E i \in 1..Len(out) : \E j \in (i + 1)..Len(out) :
       out[i].op = "stop" /\ out[i].toks # <<>> /\ out[j].op = "tick"

\* ----------------------------------------------------------------- C5
\* The operation that last started or stopped the spinner before group i.
LastSwitch(tr, i) ==
  LET S == {j \in 1..(i - 1) : tr[j].op \in {"start", "stop"}}
  IN  IF S = {} THEN "none" ELSE tr[CHOOSE j \in S : \A k \in S : k <= j].op

\* C5: the spinner is stopped or running with exactly one interval armed;
\* after stop() no interval is armed, and a frame is written only between a
\* start() and the next stop().
C5_OneTimer ==
  /\ armed[1] = (IF timer[1] THEN 1 ELSE 0)
  /\ (out # <<>> /\ LastOp.op = "stop") => armed[1] = 0
  /\ \A i \in 1..Len(out) :
       (out[i].op = "tick" /\ out[i].toks # <<>>) => LastSwitch(out, i) = "start"

\* start() was called twice, then stop() once, and the interval could fire before.
C5_Witness ==
  \E i \in 1..Len(out) :
    /\ i + 3 <= Len(out)
    /\ out[i].op = "start" /\ out[i + 1].op = "start"
    /\ out[i + 2].op = "tick"
    /\ out[i + 3].op = "stop" /\ out[i + 3].toks # <<>>
    /\ armed[1] = 0

\* ----------------------------------------------------------------- C1
\* An entry that spinner s wrote itself (a frame, the erase sequence, a payload).
OwnWrite(e, s) == e.kind \in {"frame", "erase", "payload"} /\ e.b = s
\* No text passed through bracket b's interceptor, while b's spinner was not
\* in a write of its own, reached the stream with b's interval set; and no
\* frame was written inside another operation's write.
StoppedWhileWriting(tr) ==
  \A i \in 1..Len(tr) : \A k \in 1..Len(tr[i].toks) :
    LET e == tr[i].toks[k]
    IN  /\ \A b \in e.via : (e.text /\ b \notin e.wr) => b \notin e.run
        /\ \A b \in Brackets : OwnWrite(e, b) => b \in e.wr
        /\ e.kind = "frame" => (tr[i].op = "tick" /\ tr[i].b = e.b)

\* C1: an intercepted textual write made while the bracket's spinner runs
\* and is not inside a write of its own finds the spinner stopped at every
\* byte it writes, has no frame among its bytes, and leaves the spinner
\* running again once it has returned.
C1_StopWriteRestart ==
  [][/\ StoppedWhileWriting(out')
     /\ Did("write") => (timer' = timer /\ armed' = armed)]_vars

\* A caller's text went through bracket 1's interceptor while its spinner was
\* running: the erase sequence came first and the spinner runs again.
C1_Witness ==
  /\ out # <<>> /\ LastOp.op = "write"
  /\ Len(LastOp.toks) >= 2
  /\ LastOp.toks[1].kind = "erase" /\ LastOp.toks[1].b = 1
  /\ \E k \in 2..Len(LastOp.toks) :
       LastOp.toks[k].kind = "client" /\ 1 \in LastOp.toks[k].via
  /\ timer[1]
  /\ \E i \in 1..Len(out) : out[i].op = "tick"

\* ----------------------------------------------------------------- C6
\* A text with the glyph put at the start of every line: before the first
\* character and after every newline that more text follows.
RECURSIVE PrefixLines(_, _)
PrefixLines(txt, atStart) ==
  IF txt = <<>> THEN <<>>
  ELSE (IF atStart THEN <<"bodyGlyph">> ELSE <<>>) \o <<Head(txt)>>
         \o PrefixLines(Tail(txt), Head(txt) = "nl")

Tokens(es) == [i \in 1..Len(es) |-> es[i].t]
\* What bracket b's interceptor passed on, and the same without its glyphs.
Passed(b) == LET Through(e) == e.text /\ b \in e.via IN SelectSeq(Flat(out), Through)
Given(b) == LET NotGlyph(e) == e.glyph # b IN SelectSeq(Passed(b), NotGlyph)

\* C6: with no spinner running, what a bracket's interceptor passes on is the
\* text written to it, as one stream whatever the write calls were, with the
\* glyph once at the start of each line.
C6_SplitIndependent ==
  \A b \in Brackets : Tokens(Passed(b)) = PrefixLines(Tokens(Given(b)), TRUE)

\* "ab" then "c\n" were written after the capture began: one glyph, abc, newline.
C6_Witness ==
  /\ Len(out) = 3
  /\ out[1].op = "using"
  /\ Text(out[2]) = <<"bodyGlyph", "a", "b">>
  /\ Text(out[3]) = <<"c", "nl">>
  /\ Tokens(Given(out[1].b)) = <<"nl", "a", "b", "c", "nl">>

\* ----------------------------------------------------------------- C7
FinalizeOps == {"finalize", "usingReturned", "usingThrew", "syncReturned", "syncThrew"}
\* The step just taken ran bracket b's finalize().
DidFinalize(b) ==
  /\ Len(out') = Len(out) + 1
  /\ out'[Len(out')].op \in FinalizeOps
  /\ out'[Len(out')].b = b
Finalized(b) == \E i \in 1..Len(out) : out[i].op \in FinalizeOps /\ out[i].b = b

\* C7: a second finalize() of a bracket writes nothing and leaves the
\* stream's writer as it is.
C7_FinalizeTwice ==
  [][\A b \in Brackets :
       (DidFinalize(b) /\ Finalized(b)) =>
         (out'[Len(out')].toks = <<>> /\ write' = write)]_vars

\* ----------------------------------------------------------------- C8
HeaderPrinted(b, tr) ==
  /\ \E e \in {Flat(tr)[k] : k \in 1..Len(Flat(tr))} : e.kind = "header" /\ e.b = b
  /\ Cardinality({k \in 1..Len(Flat(tr)) :
                    Flat(tr)[k].kind = "detail" /\ Flat(tr)[k].b = b /\ Flat(tr)[k].t = "nl"})
       = NumDetails

\* C8: when the callback of using or usingSync starts, the header and the
\* detail lines are printed and the bracket's interceptor is the stream's
\* writer, the writer it replaced saved.
C8_OpenBeforeCallback ==
  [][\A b \in Brackets :
       (phase[b] = "new" /\ phase'[b] \in {"using", "sync"}) =>
         /\ HeaderPrinted(b, out')
         /\ write' = b
         /\ originalWrite'[b] = write]_vars

\* ----------------------------------------------------------------- C9
ExitOps == {"usingReturned", "usingThrew", "syncReturned", "syncThrew"}
\* In the group g of bracket b's finalize: the spinner's stop writes, then the
\* blank line, then the footer.
StopBlankFooter(g, b, captured) ==
  LET n == Len(g.toks)
      blank == {k \in 1..n : g.toks[k].kind = "blank" /\ g.toks[k].b = b /\ g.toks[k].glyph = 0}
      foot == {k \in 1..n : g.toks[k].kind = "footer" /\ g.toks[k].b = b /\ g.toks[k].glyph = 0}
      stop == {k \in 1..n : OwnWrite(g.toks[k], b)}
  IN  /\ blank # {} /\ foot = {n - 2, n - 1, n}
      /\ \A i \in stop : \A j \in blank : i < j
      /\ \A i \in blank : \A j \in foot : i < j
      /\ \A i \in blank : captured => b \in g.toks[i].via
      /\ \A j \in foot : b \notin g.toks[j].via

\* C9: when using or usingSync completes, by return or by throw, the spinner
\* is stopped, the stream's writer is the one from before the capture, and
\* the footer was written after the restore, the spinner's stop before it.
C9_CloseOnExit ==
  [][\A b \in Brackets :
       (Len(out') = Len(out) + 1 /\ out'[Len(out')].op \in ExitOps /\ out'[Len(out')].b = b) =>
         /\ ~timer'[b] /\ armed'[b] = 0
         /\ write' = pre[b]
         /\ StopBlankFooter(out'[Len(out')], b, write = b)]_vars

\* A using whose callback threw while the task spinner ran has completed.
C9_Witness ==
  /\ out # <<>> /\ LastOp.op = "usingThrew"
  /\ \E k \in 1..Len(LastOp.toks) : LastOp.toks[k].kind = "payload"
  /\ write = Native

\* ---------------------------------------------------------------- C10
Captured(b) == originalWrite[b] # Undefined

\* C10 as stated: once both brackets that captured the stream have finalized,
\* in any order, the stream has the writer from before the first capture.
C10_AnyOrder ==
  (\A b \in Brackets : Captured(b) /\ phase[b] = "done") => write = Native

\* C10, amended: a finalize sets the stream's writer to the one from
\* immediately before that bracket's capture; the finalize of the bracket
\* that captured first, run after the bracket that captured second has
\* finalized, leaves the writer from before the first capture.
C10_RestoresOwnOriginal ==
  [][\A b \in Brackets :
       (DidFinalize(b) /\ Captured(b)) =>
         /\ write' = pre[b]
         /\ (\A c \in Brackets \ {b} : (pre[c] = b /\ phase[c] = "done")) => write' = Native]_vars

\* Bracket 2 captured inside bracket 1's capture and both finalized, 2 first.
C10_Witness ==
  /\ Len(out) = 4
  /\ out[1].op = "using" /\ out[1].b = 1
  /\ out[2].op = "using" /\ out[2].b = 2
  /\ out[3].op \in ExitOps /\ out[3].b = 2
  /\ out[4].op \in ExitOps /\ out[4].b = 1
  /\ write = Native

\* ------------------------------------------------------------------ C11
TaskOps == {"task", "taskPlain"}

\* C11: a call of task on bracket b leaves b's spinner running with the
\* deferred payload queued, and the description line open, if and only if the
\* bracket's spinners are enabled, the call did not disable the spinner and
\* the stream is a TTY; otherwise no spinner runs and the line ends with a
\* newline.
C11_SpinnerIffEnabledAndTTY ==
  [][\A b \in Brackets :
       (Len(out') = Len(out) + 1 /\ out'[Len(out')].op \in TaskOps /\ out'[Len(out')].b = b) =>
         LET g == out'[Len(out')]
             wanted == optTaskSpinner[b] /\ g.op = "task" /\ isTTY
         IN  IF wanted
             THEN timer'[b] /\ writeOnStop'[b] = {TaskPayload}
                    /\ g.toks[Len(g.toks)].t # "nl"
             ELSE ~timer'[b] /\ g.toks[Len(g.toks)].t = "nl"]_vars

\* ------------------------------------------------------------------ C12
\* The positions in the diagnostic stream of the tokens t that await k wrote.
StderrAt(k, ts) ==
  {i \in 1..Len(shell.stderr) : shell.stderr[i].k = k /\ shell.stderr[i].t \in ts}

\* C12: once a callback of a command that failed under the default throw
\* policy has run, the process has exited with status 1, that await wrote the
\* command line exactly once and the output diagnostics after it, and the
\* caller's rejection handler was never called.
C12_FailureExits ==
  \A k \in 1..Len(shell.awaits) :
    (shell.state = "rejected" /\ shell.throws /\ shell.awaits[k].done # "waiting") =>
      /\ shell.exited = 1
      /\ shell.awaits[k].done = "exited"
      /\ ~shell.awaits[k].onrejected
      /\ Cardinality(StderrAt(k, {"command"})) = 1
      /\ StderrAt(k, {"exitCode", "nl"}) # {}
      /\ \A i \in StderrAt(k, {"command"}) :
           \A j \in StderrAt(k, {"exitCode", "nl"}) : i < j

\* A command that exited with 1 ended the process from an await made with
\* verbose mode off, behind an await made with verbose mode on.
C12_Witness ==
  /\ shell.exited = 1 /\ shell.throws /\ shell.error = "ShellError"
  /\ \E k \in 1..Len(shell.awaits) :
       shell.awaits[k].done = "exited" /\ ~shell.awaits[k].commandLogged
  /\ \E k \in 1..Len(shell.awaits) : shell.awaits[k].commandLogged

\* ------------------------------------------------------------------ C13
\* C13: an await of a command run with nothrow that exited with 1 yields a
\* result with exit code 1, the process goes on, and the spinner that await
\* started is stopped.
C13_NothrowYields ==
  \A k \in 1..Len(shell.awaits) :
    (~shell.throws /\ shell.exitCode = 1 /\ shell.awaits[k].done # "waiting") =>
      /\ shell.awaits[k].done = "yielded"
      /\ shell.awaits[k].result = 1
      /\ shell.exited = -1
      /\ shell.awaits[k].spinner # 0 => ~shell.timer[shell.awaits[k].spinner]

\* ------------------------------------------------------------------ C14
\* The policy an execution runs under: the local shell throws unless told not to.
Policy(e) == IF e.throws = "never" THEN "never" ELSE "always"

\* C14: an execution of a call whose last throws/nothrow was throws(false) or
\* nothrow() runs under the policy "never", and one whose last was
\* throws(true) under "always".
C14_LastPolicyCallWins ==
  \A i \in 1..Len(ssh.execs) :
    LET e == ssh.execs[i]
    IN  ~e.sync =>
          /\ e.asked = {FALSE} => Policy(e) = "never"
          /\ e.asked = {TRUE} => Policy(e) = "always"

Lookup(env, name) == {env[i].v : i \in {j \in 1..Len(env) : env[j].k = name}}

EnvNames == {"A", "B"}

C17_DefaultsAsOfCall ==
  \A i \in 1..Len(ssh.execs) :
    LET e == ssh.execs[i]
    IN  /\ e.proxy = e.atCall.proxy
        /\ e.envSet = <<>> => e.env = e.atCall.env
        /\ e.cwdSet = {} => e.cwd = e.atCall.cwd

\* ------------------------------------------------------------------ C18
\* The escaped form of each value of the model, written out.
Escaped(v) ==
  CASE v = <<"1">> -> <<"1">>
    [] v = <<"/tmp">> -> <<"/tmp">>
    [] v = <<"2", " ", "$">> -> <<"\"", "2", " ", "\\", "$", "\"">>
    [] v = <<"/my", " ", "dir">> -> <<"\"", "/my", " ", "dir", "\"">>

\* cat "a b" x "\$y" >f
InnerCommand ==
  <<"cat", " ", "\"", "a", " ", "b", "\"", " ", "x", " ", "\"", "\\", "$", "y", "\"", " ", ">f">>

RECURSIVE Assignments(_)
Assignments(env) ==
  IF env = <<>> THEN <<>>
  ELSE Assignments(SubSeq(env, 1, Len(env) - 1))
         \o <<env[Len(env)].k, "=">> \o Escaped(env[Len(env)].v) \o <<" ">>

\* C18: every execution's argument list is ssh, -t iff tty, -J and the proxy
\* iff there is one, the sshArgs, the host, and as one argument the remote
\* command: "cd <escaped cwd> && " iff a cwd (not empty) is set, then
\* "<NAME>=<escaped value> " for each env entry in order, then the command
\* with its expressions escaped.
C18_RemoteCommand ==
  \A i \in 1..Len(ssh.execs) :
    LET e == ssh.execs[i]
        cd == IF e.cwd \in {{}, {<<>>}} THEN <<>>
              ELSE <<"cd", " ">> \o Escaped(CHOOSE c \in e.cwd : TRUE) \o <<" ", "&&", " ">>
    IN  e.args = << <<"ssh">> >>
                   \o (IF e.tty THEN << <<"-t">> >> ELSE <<>>)
                   \o (IF e.proxy # {} THEN << <<"-J">>, CHOOSE x \in e.proxy : TRUE >> ELSE <<>>)
                   \o SshArgs
                   \o <<Remote, cd \o Assignments(e.env) \o InnerCommand>>

\* An execution with env {A: "1", B: "1"} and cwd /tmp, whose remote command
\* begins cd /tmp && A=1
C18_Witness ==
  \E i \in 1..Len(ssh.execs) :
    LET e == ssh.execs[i]
        remote == e.args[Len(e.args)]
    IN  /\ e.cwd = {<<"/tmp">>} /\ Lookup(e.env, "A") = {<<"1">>}
        /\ SubSeq(remote, 1, 10) = <<"cd", " ", "/tmp", " ", "&&", " ", "A", "=", "1", " ">>

\* ------------------------------------------------------------------ C19
\* The logged command around its one expression
Before == CollapseWhitespace(built.parts[1])
After == CollapseWhitespace(built.parts[2])

\* C19: the string of a raw expression stands in the built command exactly
\* as given, between the literal text before and after it.
C19_RawVerbatim ==
  (built.done /\ built.expressions[1].type = "raw") =>
    built.out = Before \o built.expressions[1].v \o After

\* ------------------------------------------------------------------ C20
\* What the scalar rule makes of each scalar of the model, written out.
ScalarText(e) ==
  CASE e.type = "boolean" -> IF e.b THEN <<"true">> ELSE <<"false">>
    [] e.v = <<"a">> -> <<"a">>
    [] e.v = <<"42">> -> <<"42">>
    [] e.v = <<"b", " ", "c">> -> <<"\"", "b", " ", "c", "\"">>
    [] e.v = <<" ", "d">> -> <<"\"", " ", "d", "\"">>

RECURSIVE SpaceSeparated(_)
SpaceSeparated(items) ==
  IF Len(items) = 0 THEN <<>>
  ELSE IF Len(items) = 1 THEN ScalarText(items[1])
  ELSE SpaceSeparated(SubSeq(items, 1, Len(items) - 1)) \o <<" ">> \o ScalarText(items[Len(items)])

C21_SignalEndsProcess ==
  LET code == [SIGINT |-> 130, SIGTERM |-> 143, SIGHUP |-> 129, SIGQUIT |-> 131]
  IN  proc.signal \in Signals =>
        (~proc.alive /\ proc.exitCode = code[proc.signal])

\* ------------------------------------------------------------------ C22
\* C22: a call of cleanupNow runs every routine that was registered when it
\* began, in the order of the registry and the ones after a routine that
\* throws included; it writes one warning per routine that threw, no error
\* leaves it, and the registry is empty after it.
C22_ThrowingRoutineIsolated ==
  [][proc'.cleanups = proc.cleanups + 1 =>
       /\ proc'.ran = proc.ROUTINES
       /\ \A f \in Routines :
            proc'.runs[f] = proc.runs[f] + (IF Registered(proc, f) THEN 1 ELSE 0)
       /\ proc'.warnings = proc.warnings
            + Cardinality({f \in Routines : Registered(proc, f) /\ Throws(f)})
       /\ ~proc'.threw
       /\ proc'.ROUTINES = <<>>]_vars

\* Routine 2 threw, and routine 1, registered after it, ran all the same.
C22_Witness ==
  /\ proc.ran = <<2, 1>>
  /\ proc.warnings = 1
  /\ proc.ROUTINES = <<>>

\* ------------------------------------------------------------------ C30
\* C30: whatever the registrations, unregistrations, signals and the exit,
\* a routine has run at most once for each time it was added to the
\* registry, and a call of cleanupNow does not run a routine whose unregister
\* function was called since the routine was last registered.
C30_AtMostOnce ==
  [][\A f \in Routines :
       /\ proc'.runs[f] <= proc'.adds[f]
       /\ (proc'.cleanups = proc.cleanups + 1 /\ proc.detached[f])
            => proc'.runs[f] = proc.runs[f]]_vars

\* A signal and then the exit: routine 1 ran once, and routine 2, that was
\* unregistered before them, never.
C30_Witness ==
  /\ proc.cleanups = 2 /\ ~proc.alive /\ proc.signal \in Signals
  /\ proc.adds[1] = 1 /\ proc.runs[1] = 1
  /\ proc.adds[2] = 1 /\ proc.detached[2] /\ proc.runs[2] = 0

C26_SavedWhileCapturing ==
  \A b \in Brackets : (originalWrite[b] # Undefined) <=> (phase[b] = "using")

\* ------------------------------------------------------------------ C25
\* What spinner s wrote itself in a group, without the glyphs that the
\* interceptors put before it.
OwnWrites(g, s) == LET Own(e) == OwnWrite(e, s) /\ e.glyph = 0 IN SelectSeq(g.toks, Own)

\* C25: every frame, erase sequence and payload reaches the stream with its
\* spinner's writing flag raised; a tick of spinner s, through whatever
\* interceptors its frame passes, writes that one frame and nothing else of
\* its own and neither stops nor starts s; and the flag of every spinner is
\* down whenever a handler has returned.
C25_OwnWritesFlagged ==
  [][/\ \A i \in 1..Len(out') : \A k \in 1..Len(out'[i].toks) :
          \A s \in Brackets : OwnWrite(out'[i].toks[k], s) => s \in out'[i].toks[k].wr
     /\ \A s \in Brackets :
          (Did("tick") /\ out'[Len(out')].b = s) =>
            /\ Len(OwnWrites(out'[Len(out')], s)) = 2
            /\ \A k \in 1..2 : OwnWrites(out'[Len(out')], s)[k].kind = "frame"
            /\ timer'[s] = timer[s] /\ armed'[s] = armed[s]
     /\ \A s \in Brackets : ~writing'[s]]_vars

\* A frame of spinner 1 went through bracket 1's own interceptor, and so did
\* the erase sequence of a later stop, each with the flag raised.
C25_Witness ==
  \E i, j \in 1..Len(out) :
    /\ i < j
    /\ out[i].op = "tick" /\ out[i].b = 1
    /\ \E k \in 1..Len(out[i].toks) :
         LET e == out[i].toks[k] IN e.kind = "frame" /\ 1 \in e.via /\ 1 \in e.wr
    /\ \E k \in 1..Len(out[j].toks) :
         LET e == out[j].toks[k] IN e.kind = "erase" /\ e.b = 1 /\ 1 \in e.via /\ 1 \in e.wr

\* ------------------------------------------------------------------ C24
\* A write of text that leaves its line open.
OpensLine(g) == g.op = "write" /\ g.toks # <<>> /\ g.toks[Len(g.toks)].t # "nl"
HasFrame(g) == \E k \in 1..Len(g.toks) : g.toks[k].kind = "frame" /\ g.toks[k].glyph = 0

\* C24: between a textual write that leaves its line open and the next
\* write, which goes on with that line, no frame of a spinner reaches the
\* stream.
C24_NoFrameInsideLine ==
  \A i, j \in 1..Len(out) :
    (/\ i < j
     /\ OpensLine(out[i]) /\ out[j].op = "write"
     /\ \A k \in (i + 1)..(j - 1) : out[k].op # "write")
      => \A k \in (i + 1)..(j - 1) : ~HasFrame(out[k])

\* ------------------------------------------------------------------ C29
\* Where in a group the entries that satisfy a test are.
Places(g, Test(_)) == {k \in 1..Len(g.toks) : Test(g.toks[k])}

\* The newlines of the gap in a group of bracket b.
GapPlaces(g, b) ==
  LET IsGap(e) == e.kind = "gap" /\ e.b = b /\ e.glyph = 0 IN Places(g, IsGap)

\* C29: task() on a bracket that had no task yet writes no gap; a later
\* task() writes taskGap newlines, each with the spinner of the task before
\* stopped, after all that stopping that spinner wrote and before the
\* bullet and the description.
C29_GapBetweenTasks ==
  [][\A b \in Brackets :
       (Len(out') = Len(out) + 1 /\ out'[Len(out')].op \in TaskOps /\ out'[Len(out')].b = b) =>
         LET g == out'[Len(out')]
             IsStop(e) == OwnWrite(e, b) /\ e.kind # "frame"
             IsTask(e) == e.kind = "task" /\ e.b = b
         IN  /\ Cardinality(GapPlaces(g, b)) = (IF currentTask[b] THEN taskGap[b] ELSE 0)
             /\ \A k \in GapPlaces(g, b) :
                  /\ g.toks[k].t = "nl" /\ b \notin g.toks[k].run
                  /\ \A m \in Places(g, IsStop) : m < k
                  /\ \A m \in Places(g, IsTask) : k < m
             /\ Places(g, IsTask) # {}]_vars

\* A second task on a bracket with a gap of two lines: the spinner of the
\* first was stopped, two newlines followed, then the bullet.
C29_Witness ==
  /\ out # <<>> /\ LastOp.op \in TaskOps
  /\ taskGap[LastOp.b] = MaxGap
  /\ Cardinality(GapPlaces(LastOp, LastOp.b)) = MaxGap
  /\ \E k \in 1..Len(LastOp.toks) :
       LastOp.toks[k].kind = "erase" /\ LastOp.toks[k].b = LastOp.b

\* ------------------------------------------------------------------ C27
\* The fragments of the templates with every run of whitespace made one
\* space, written out.
Collapsed(part) ==
  CASE part = <<"echo", " ">> -> <<"echo", " ">>
    [] part = <<"ls", " ", " ">> -> <<"ls", " ">>
    [] part = <<" ", "nl", ">f">> -> <<" ", ">f">>
    [] part = <<>> -> <<>>

\* What stands in a built command between its two fragments.
Between(parts, command) ==
  SubSeq(command, Len(Collapsed(parts[1])) + 1, Len(command) - Len(Collapsed(parts[2])))

\* C27: the built command begins with the first fragment and ends with the
\* second, each with its runs of whitespace made one space and otherwise as
\* written, whatever the expression; and what stands between them is the
\* same text for that expression in every template.
C27_FragmentsInOrder ==
  built.done =>
    LET first == Collapsed(built.parts[1])
        second == Collapsed(built.parts[2])
    IN  /\ Len(built.out) >= Len(first) + Len(second)
        /\ SubSeq(built.out, 1, Len(first)) = first
        /\ SubSeq(built.out, Len(built.out) - Len(second) + 1, Len(built.out)) = second
        /\ \A t \in Templates :
             Between(t, BuildCommand(t, built.expressions, 1)) = Between(built.parts, built.out)

\* `ls  ${"b c"} \n>f` was built into `ls "b c" >f`.
C27_Witness ==
  /\ built.done
  /\ built.parts = << <<"ls", " ", " ">>, <<" ", "nl", ">f">> >>
  /\ built.expressions[1].type = "string"
  /\ built.out = <<"ls", " ", "\"", "b", " ", "c", "\"", " ", ">f">>

\* ------------------------------------------------------------------ C28
\* C28: the lines of a command's stdout and stderr that one await prints
\* are at most 50, however many lines the command wrote.
C28_BoundedTail ==
  \A k \in 1..Len(shell.awaits) :
    Cardinality(StderrAt(k, {"stdoutLine", "stderrLine"})) <= 50

\* ------------------------------------------------------------------ C31
\* C31: once the command has ended and every callback of its awaits has
\* run, no spinner that an await started is running, however many times
\* the promise was awaited before the command ended.
C31_NoSpinnerLeftRunning ==
  (/\ shell.state \in {"fulfilled", "rejected"}
   /\ shell.awaits # <<>>
   /\ \A k \in 1..Len(shell.awaits) : shell.awaits[k].done = "yielded")
    => \A s \in ShellSpinners : ~shell.timer[s]
====
